---- MODULE Spec2Model ----
(***************************************************************************)
(* Phone book CLI (uocli/phone-book-management-cli-rust).                  *)
(*                                                                         *)
(* State: the in-memory Vec<Contact> of the PhoneBook, the rows of the     *)
(* contacts table of the SQLite database, and what the last operation read *)
(* from stdin and printed.  A string is a sequence of one-character        *)
(* strings, so that trimming, lower-casing, substring search, digit        *)
(* filtering and ordinal comparison are computed, not assumed.             *)
(*                                                                         *)
(* The operations are those of src/phone_book/operations.rs, each run from *)
(* the prompt of the command loop.  create_contact saves to the database   *)
(* only, list_contacts_in_order replaces the Vec by the rows it loads, and *)
(* delete_contact, update_contact and load_contacts_from_csv change the    *)
(* Vec only.  The table is read as SQLite reads it: a scan in rowid order, *)
(* ORDER BY first_name under the BINARY collation with rows of equal key   *)
(* in rowid order.                                                         *)
(***************************************************************************)
EXTENDS Integers, Sequences, FiniteSets, TLC

VARIABLES contacts, db, alive, op, input, reads, output, prev,
          msg, uuids, next_uuid, stdin_eof

vars == <<contacts, db, alive, op, input, reads, output, prev,
          msg, uuids, next_uuid, stdin_eof>>

(* Largest number of rows of the contacts table and of entries of the      *)
(* in-memory Vec that the model explores.                                  *)
MaxContacts == 2

---------------------------------------------------------------------------
(* Characters and strings                                                  *)

Digits == {"0", "1", "2", "3", "4", "5", "6", "7", "8", "9"}

Chars == Digits \cup {" ", "(", ")", "+", "-", ".", "?", "@",
                      "A", "B", "C", "D", "E", "F", "L", "N", "Q", "U", "X", "Y", "Z",
                      "a", "b", "c", "d", "e", "f", "l", "n", "q", "u", "x", "y", "z"}

(* Unicode scalar value of a character: the order of str::cmp and of       *)
(* SQLite's BINARY collation on these one-byte characters.                 *)
Code(c) ==
    CASE c = " " -> 32 [] c = "(" -> 40 [] c = ")" -> 41 [] c = "+" -> 43
      [] c = "-" -> 45 [] c = "." -> 46
      [] c = "0" -> 48 [] c = "1" -> 49 [] c = "2" -> 50 [] c = "3" -> 51
      [] c = "4" -> 52 [] c = "5" -> 53 [] c = "6" -> 54 [] c = "7" -> 55
      [] c = "8" -> 56 [] c = "9" -> 57
      [] c = "?" -> 63
      [] c = "@" -> 64 [] c = "A" -> 65 [] c = "B" -> 66 [] c = "C" -> 67
      [] c = "D" -> 68 [] c = "E" -> 69 [] c = "F" -> 70 [] c = "L" -> 76
      [] c = "N" -> 78 [] c = "Q" -> 81 [] c = "U" -> 85 [] c = "X" -> 88
      [] c = "Y" -> 89 [] c = "Z" -> 90
      [] c = "a" -> 97 [] c = "b" -> 98 [] c = "c" -> 99 [] c = "d" -> 100
      [] c = "e" -> 101 [] c = "f" -> 102 [] c = "l" -> 108 [] c = "n" -> 110
      [] c = "q" -> 113 [] c = "u" -> 117
      [] c = "x" -> 120 [] c = "y" -> 121 [] c = "z" -> 122

LowerChar(c) ==
    CASE c = "A" -> "a" [] c = "B" -> "b" [] c = "Y" -> "y" [] c = "Z" -> "z"
      [] c = "C" -> "c" [] c = "D" -> "d" [] c = "E" -> "e" [] c = "F" -> "f"
      [] c = "L" -> "l" [] c = "N" -> "n" [] c = "Q" -> "q" [] c = "U" -> "u"
      [] c = "X" -> "x"
      [] OTHER -> c

UpperChar(c) ==
    CASE c = "a" -> "A" [] c = "b" -> "B" [] c = "d" -> "D" [] c = "n" -> "N"
      [] c = "x" -> "X" [] c = "y" -> "Y" [] c = "z" -> "Z"
      [] c = "c" -> "C" [] c = "e" -> "E" [] c = "f" -> "F" [] c = "l" -> "L"
      [] c = "q" -> "Q" [] c = "u" -> "U"
      [] OTHER -> c

to_lowercase(s) == [i \in 1..Len(s) |-> LowerChar(s[i])]

to_uppercase(s) == [i \in 1..Len(s) |-> UpperChar(s[i])]

is_whitespace(c) == c = " "

RECURSIVE trim_start(_)
trim_start(s) ==
    IF s # <<>> /\ is_whitespace(Head(s)) THEN trim_start(Tail(s)) ELSE s

RECURSIVE trim_end(_)
trim_end(s) ==
    IF s # <<>> /\ is_whitespace(s[Len(s)])
    THEN trim_end(SubSeq(s, 1, Len(s) - 1))
    ELSE s

trim(s) == trim_end(trim_start(s))

is_empty(s) == Len(s) = 0

(* str::contains: the needle occurs at some offset of the haystack.        *)
contains(hay, needle) ==
    \E k \in 0..(Len(hay) - Len(needle)) :
        SubSeq(hay, k + 1, k + Len(needle)) = needle

(* Ordinal (code point by code point) order of two strings.                *)
RECURSIVE StrLess(_, _)
StrLess(a, b) ==
    IF b = <<>> THEN FALSE
    ELSE IF a = <<>> THEN TRUE
    ELSE IF Code(Head(a)) # Code(Head(b)) THEN Code(Head(a)) < Code(Head(b))
    ELSE StrLess(Tail(a), Tail(b))

---------------------------------------------------------------------------
(* Contact model                                                           *)

E == <<>>

RECURSIVE FilterDigits(_)
FilterDigits(s) ==
    IF s = <<>> THEN <<>>
    ELSE IF Head(s) \in Digits THEN <<Head(s)>> \o FilterDigits(Tail(s))
    ELSE FilterDigits(Tail(s))

(* standardize_phone_number that formats the first ten of ten or more      *)
(* digits.                                                                 *)
standardize_phone_number_long(phone_number) ==
    LET digits == FilterDigits(phone_number) IN
    IF Len(digits) >= 10
    THEN <<"(">> \o SubSeq(digits, 1, 3) \o <<")", " ">> \o SubSeq(digits, 4, 6)
         \o <<"-">> \o SubSeq(digits, 7, 10)
    ELSE phone_number

(* Contact::standardize_phone_number: "(ddd) ddd-dddd" when exactly ten     *)
(* digits remain after dropping every other character, else the argument.  *)
standardize_phone_number(phone_number) ==
    LET digits == FilterDigits(phone_number) IN
    IF Len(digits) = 10
    THEN <<"(">> \o SubSeq(digits, 1, 3) \o <<")", " ">> \o SubSeq(digits, 4, 6)
         \o <<"-">> \o SubSeq(digits, 7, 10)
    ELSE phone_number

Contact_default ==
    [first_name |-> E, last_name |-> E, email |-> E, address |-> E, phone |-> E]

(* Contact::new with the email and address arguments in each other's place. *)
Contact_new_swapped(first_name, last_name, email, address, phone_number) ==
    [first_name |-> first_name, last_name |-> last_name, email |-> address,
     address |-> email, phone |-> standardize_phone_number(phone_number)]

(* Contact::new(first_name, last_name, email, address, phone_number)       *)
Contact_new(first_name, last_name, email, address, phone_number) ==
    [first_name |-> first_name, last_name |-> last_name, email |-> email,
     address |-> address, phone |-> standardize_phone_number(phone_number)]

---------------------------------------------------------------------------
(* Input helpers                                                           *)

(* get_input without the trim.                                             *)
get_input_untrimmed(line) == line

(* PhoneBook::get_input: the line read from stdin, trimmed.                *)
get_input(line) == trim(line)

RECURSIVE DigitsValue(_)
DigitsValue(s) ==
    IF s = <<>> THEN 0
    ELSE 10 * DigitsValue(SubSeq(s, 1, Len(s) - 1)) + (Code(s[Len(s)]) - Code("0"))

(* str::parse::<usize>: an optional leading "+", then one or more decimal  *)
(* digits; anything else is an error.                                      *)
parse_usize(s) ==
    LET body == IF s # <<>> /\ Head(s) = "+" THEN Tail(s) ELSE s IN
    IF body # <<>> /\ \A k \in 1..Len(body) : body[k] \in Digits
    THEN [is_err |-> FALSE, value |-> DigitsValue(body)]
    ELSE [is_err |-> TRUE, value |-> 0]

(* Vec::remove(index): the vector without the element at 0-based index.   *)
remove(v, index) == SubSeq(v, 1, index) \o SubSeq(v, index + 2, Len(v))

(* v[index] = x, index 0-based.                                            *)
index_assign(v, index, x) == [v EXCEPT ![index + 1] = x]

(* The bounds test with the last index rejected.                           *)
index_out_of_range_strict(index, len) == index < 1 \/ index >= len

(* The bounds test written for 0-based indices.                            *)
index_out_of_range_zero_based(index, len) == index < 0 \/ index > len

(* The bounds test of delete_contact and update_contact.                   *)
index_out_of_range(index, len) == index < 1 \/ index > len

(* Vec indexing and Vec::remove panic on a 0-based index outside the Vec.  *)
in_bounds(v, index) == index >= 0 /\ index < Len(v)

(* The confirmation test ignoring case.                                    *)
confirmed_any_case(confirm) == to_lowercase(confirm) = <<"y">>

(* The confirmation test of delete_contact.                                *)
confirmed(confirm) == confirm = <<"y">>

---------------------------------------------------------------------------
(* Persistence: the contacts table, rows in rowid (insertion) order        *)

(* The outcomes of one round trip to the database: establish_connection    *)
(* panics when it cannot connect, a statement may fail, or both succeed.   *)
DbOutcomes == {"ok", "connect_failed", "query_failed"}

(* ORDER BY first_name ASC: BINARY collation, rows with equal keys stay in *)
(* rowid order.                                                            *)
RECURSIVE InsertAsc(_, _)
InsertAsc(sorted, row) ==
    IF sorted = <<>> THEN <<row>>
    ELSE IF StrLess(row.first_name, Head(sorted).first_name)
         THEN <<row>> \o sorted
         ELSE <<Head(sorted)>> \o InsertAsc(Tail(sorted), row)

RECURSIVE order_asc(_)
order_asc(rows) ==
    IF rows = <<>> THEN <<>>
    ELSE InsertAsc(order_asc(SubSeq(rows, 1, Len(rows) - 1)), rows[Len(rows)])

(* Descending order in which a later row goes before its equals.           *)
InsertDesc_unstable(sorted, row) ==
    IF sorted = <<>> THEN <<row>>
    ELSE IF ~StrLess(row.first_name, Head(sorted).first_name)
         THEN <<row>> \o sorted
         ELSE <<Head(sorted)>> \o sorted

(* Descending requested, ascending delivered.                              *)
order_desc_as_asc(rows) == order_asc(rows)

(* ORDER BY first_name DESC: greater keys first, rows with equal keys stay *)
(* in rowid order.                                                         *)
RECURSIVE InsertDesc(_, _)
InsertDesc(sorted, row) ==
    IF sorted = <<>> THEN <<row>>
    ELSE IF StrLess(Head(sorted).first_name, row.first_name)
         THEN <<row>> \o sorted
         ELSE <<Head(sorted)>> \o InsertDesc(Tail(sorted), row)

RECURSIVE order_desc(_)
order_desc(rows) ==
    IF rows = <<>> THEN <<>>
    ELSE InsertDesc(order_desc(SubSeq(rows, 1, Len(rows) - 1)), rows[Len(rows)])

(* contacts::table.load without ORDER BY: the table scan, in rowid order.  *)
load_unordered(rows) == rows

(* diesel::insert_into(contacts::table).values(&contact): a new last row.  *)
insert_into(rows, contact) == Append(rows, contact)

---------------------------------------------------------------------------
(* What an operation printed: the messages, the contacts shown one by one  *)
(* by Contact::print_contact, and the rows of the table of print_contacts. *)

Out(msgs, card, shown) == [msgs |-> msgs, card |-> card, shown |-> shown]

NoOut == Out(<<>>, <<>>, <<>>)

(* PhoneBook::print_contacts                                               *)
print_contacts(list) ==
    IF list = <<>> THEN Out(<<"No contacts found.">>, <<>>, <<>>)
    ELSE Out(<<>>, <<>>, list)

(* The state an operation leaves: the Vec, the table, whether the process  *)
(* still runs (FALSE after a panic), how many lines it read with get_input *)
(* and the output.                                                         *)
St(c, d, a, n, out) ==
    [contacts |-> c, db |-> d, alive |-> a, reads |-> n, output |-> out]

---------------------------------------------------------------------------
(* Operations of PhoneBook.  Each takes the Vec (self), the table and what *)
(* the user types, and yields the state it leaves.  A form is the five     *)
(* lines a user would type at the prompts first name, last name, phone     *)
(* number, email, address; an operation reads only the lines it prompts    *)
(* for.                                                                    *)

(* add_contact that saves nothing.                                         *)
add_contact_unsaved(table, contact) == table

(* PhoneBook::add_contact: connect, insert, expect.                        *)
add_contact(table, contact) == insert_into(table, contact)

PanicMsg(dbres, what) ==
    IF dbres = "connect_failed" THEN "Error connecting to DATABASE_URL" ELSE what

create_contact(self, table, form, dbres) ==
    LET first_name   == get_input(form[1])
        last_name    == get_input(form[2])
        phone_number == get_input(form[3])
        email        == get_input(form[4])
        address      == get_input(form[5])
        new_contact  == Contact_new(first_name, last_name, email, address, phone_number)
    IN  IF is_empty(first_name)
        THEN St(self, table, TRUE, 1,
                Out(<<"First name is required. Contact creation cancelled.">>, <<>>, <<>>))
        ELSE IF is_empty(phone_number)
        THEN St(self, table, TRUE, 3,
                Out(<<"Phone number is required. Contact creation cancelled.">>, <<>>, <<>>))
        ELSE IF dbres # "ok"
        THEN St(self, table, FALSE, 5,
                Out(<<PanicMsg(dbres, "Error saving new contact")>>, <<new_contact>>, <<>>))
        ELSE St(self, add_contact(table, new_contact), TRUE, 5,
                Out(<<"Contact created successfully!">>, <<new_contact>>, <<>>))

(* list_contacts_in_order with the result taken by unwrap_or_default: a    *)
(* failed load leaves an empty Vec.                                        *)
list_contacts_in_order_or_default(self, table, order, dbres) ==
    IF dbres = "connect_failed"
    THEN St(self, table, FALSE, 0, Out(<<PanicMsg(dbres, "")>>, <<>>, <<>>))
    ELSE IF order \notin {"asc", "desc", ""}
    THEN St(self, table, TRUE, 0,
            Out(<<"Invalid order parameter. Please use 'asc' or 'desc'.">>, <<>>, <<>>))
    ELSE LET loaded == CASE dbres = "query_failed" -> <<>>
                         [] order = "asc"  -> order_asc(table)
                         [] order = "desc" -> order_desc(table)
                         [] order = ""     -> load_unordered(table)
         IN  St(loaded, table, TRUE, 0, print_contacts(loaded))

list_contacts_in_order(self, table, order, dbres) ==
    IF dbres = "connect_failed"
    THEN St(self, table, FALSE, 0, Out(<<PanicMsg(dbres, "")>>, <<>>, <<>>))
    ELSE IF order \notin {"asc", "desc", ""}
    THEN St(self, table, TRUE, 0,
            Out(<<"Invalid order parameter. Please use 'asc' or 'desc'.">>, <<>>, <<>>))
    ELSE IF dbres = "query_failed"
    THEN St(self, table, TRUE, 0,
            Out(<<"Error fetching contacts from the database">>, <<>>, <<>>))
    ELSE LET loaded == CASE order = "asc"  -> order_asc(table)
                         [] order = "desc" -> order_desc(table)
                         [] order = ""     -> load_unordered(table)
         IN  St(loaded, table, TRUE, 0, print_contacts(loaded))

delete_contact(self, table, index_line, confirm_line) ==
    LET index_result == parse_usize(get_input(index_line))
        index        == index_result.value
        confirm      == get_input(confirm_line)
        invalid      == St(self, table, TRUE, 1,
                           Out(<<"Invalid contact index!">>, <<>>, <<>>))
        panic        == St(self, table, FALSE, 1,
                           Out(<<"index out of bounds">>, <<>>, <<>>))
    IN  IF index_result.is_err THEN invalid
        ELSE IF index_out_of_range(index, Len(self)) THEN invalid
        ELSE IF ~in_bounds(self, index - 1) THEN panic
        ELSE IF confirmed(confirm)
        THEN St(remove(self, index - 1), table, TRUE, 2,
                Out(<<"Contact at index {} deleted successfully.">>, <<self[index]>>, <<>>))
        ELSE St(self, table, TRUE, 2,
                Out(<<"Contact deletion cancelled.">>, <<self[index]>>, <<>>))

update_contact(self, table, index_line, form) ==
    LET index_result     == parse_usize(get_input(index_line))
        index            == index_result.value
        new_first_name   == get_input(form[1])
        new_last_name    == get_input(form[2])
        new_phone_number == get_input(form[3])
        new_email        == get_input(form[4])
        new_address      == get_input(form[5])
        updated_contact  == Contact_new(new_first_name, new_last_name, new_email,
                                        new_address, new_phone_number)
        invalid          == St(self, table, TRUE, 1,
                               Out(<<"Invalid contact index!">>, <<>>, <<>>))
        panic            == St(self, table, FALSE, 1,
                               Out(<<"index out of bounds">>, <<>>, <<>>))
    IN  IF index_result.is_err THEN invalid
        ELSE IF index_out_of_range(index, Len(self)) THEN invalid
        ELSE IF ~in_bounds(self, index - 1) THEN panic
        ELSE IF is_empty(new_first_name)
        THEN St(self, table, TRUE, 2,
                Out(<<"Updating contact details...",
                      "First name is required. Contact update cancelled.">>,
                    <<self[index]>>, <<>>))
        ELSE IF is_empty(new_phone_number)
        THEN St(self, table, TRUE, 4,
                Out(<<"Updating contact details...",
                      "Phone number is required. Contact update cancelled.">>,
                    <<self[index]>>, <<>>))
        ELSE St(index_assign(self, index - 1, updated_contact), table, TRUE, 6,
                Out(<<"Updating contact details...", "Contact updated successfully!">>,
                    <<self[index]>>, <<>>))

(* The test of search_contact with the address left out.                   *)
matches_without_address(contact, query) ==
    \/ contains(to_lowercase(contact.first_name), query)
    \/ contains(to_lowercase(contact.last_name), query)
    \/ contains(to_lowercase(contact.email), query)
    \/ contains(to_lowercase(contact.phone), query)

(* The test of search_contact on one contact, the query already lower-cased. *)
matches(contact, query) ==
    \/ contains(to_lowercase(contact.first_name), query)
    \/ contains(to_lowercase(contact.last_name), query)
    \/ contains(to_lowercase(contact.email), query)
    \/ contains(to_lowercase(contact.address), query)
    \/ contains(to_lowercase(contact.phone), query)

RECURSIVE found_contacts(_, _)
found_contacts(list, query) ==
    IF list = <<>> THEN <<>>
    ELSE IF matches(Head(list), query)
         THEN <<Head(list)>> \o found_contacts(Tail(list), query)
         ELSE found_contacts(Tail(list), query)

search_contact(self, table, query_line) ==
    LET query == to_lowercase(get_input(query_line))
        found == found_contacts(self, query)
    IN  IF found = <<>>
        THEN St(self, table, TRUE, 1,
                Out(<<"No contacts found matching the search query.">>, <<>>, <<>>))
        ELSE St(self, table, TRUE, 1, print_contacts(found))

---------------------------------------------------------------------------
(* CSV import                                                              *)

(* Iterator::position: the 1-based place of the first header equal to      *)
(* name, 0 for None.                                                       *)
position(header_row, name) ==
    IF \E k \in 1..Len(header_row) : header_row[k] = name
    THEN CHOOSE k \in 1..Len(header_row) :
            /\ header_row[k] = name
            /\ \A j \in 1..(k - 1) : header_row[j] # name
    ELSE 0

(* The Ok(record) arm: a default contact with each mapped column copied.   *)
contact_of_record(header_row, record) ==
    LET first_name_index   == position(header_row, "first_name")
        last_name_index    == position(header_row, "last_name")
        email_index        == position(header_row, "email")
        address_index      == position(header_row, "address")
        phone_number_index == position(header_row, "phone")
        col(k, dflt)       == IF k # 0 THEN record[k] ELSE dflt
    IN  [first_name |-> col(first_name_index, Contact_default.first_name),
         last_name  |-> col(last_name_index, Contact_default.last_name),
         email      |-> col(email_index, Contact_default.email),
         address    |-> col(address_index, Contact_default.address),
         phone      |-> col(phone_number_index, Contact_default.phone)]

(* csv::Reader::records with the default (non-flexible) reader: a record   *)
(* whose field count differs from the header's is an Err.                  *)
record_is_ok(header_row, record) == Len(record) = Len(header_row)

RECURSIVE read_records(_, _, _)
read_records(acc, header_row, records) ==
    IF records = <<>> THEN acc
    ELSE IF record_is_ok(header_row, Head(records))
    THEN read_records(
            [acc EXCEPT !.contacts = Append(@, contact_of_record(header_row, Head(records)))],
            header_row, Tail(records))
    ELSE read_records([acc EXCEPT !.msgs = Append(@, "Error reading record")],
                      header_row, Tail(records))

load_contacts_from_csv(self, table, file_name_line, fs) ==
    LET file_name == get_input(file_name_line)
        file      == fs[file_name]
        read      == read_records([contacts |-> self, msgs |-> <<>>],
                                  file.header, file.records)
    IN  IF file_name \notin DOMAIN fs
        THEN St(self, table, TRUE, 1,
                Out(<<"Error opening file">>, <<>>, <<>>))
        ELSE IF ~file.header_ok
        THEN St(self, table, TRUE, 1,
                Out(<<"Error reading header row">>, <<>>, <<>>))
        ELSE St(read.contacts, table, TRUE, 1,
                Out(Append(read.msgs, "Contacts loaded successfully from file."),
                    <<>>, <<>>))

---------------------------------------------------------------------------
(* The environment: what the user types and the files on disk              *)

TenDigits == <<"5", "5", "5", "1", "2", "3", "4", "5", "6", "7">>

(* first name, last name, phone number, email, address                     *)
FormA == << <<"a">>, E, TenDigits, E, E >>

FormB == << <<"B">>, <<"A", "b">>, <<"1", "2">>, E, E >>

FormA2 ==
    << <<" ", "a", " ">>, E, <<" ", "1", "-", "2">>, <<"x", "@", "Y">>, <<"Z", " ", "1">> >>

FormNoFirst == << E, <<"A", "b">>, TenDigits, E, E >>

FormBlankFirst == << <<" ">>, E, TenDigits, E, E >>

FormNoPhone == << <<"B">>, E, E, <<"x", "@", "Y">>, E >>

FormBlankPhone == << <<"a">>, <<"A", "b">>, <<" ", " ">>, E, <<"Z", " ", "1">> >>

Forms ==
    {FormA, FormB, FormA2, FormNoFirst, FormBlankFirst, FormNoPhone, FormBlankPhone}

DigitChar(n) == CHOOSE c \in Digits : Code(c) = Code("0") + n

IndexLines ==
    { <<DigitChar(n)>> : n \in 0..(MaxContacts + 1) }
    \cup { E, <<"x">>, <<" ", "2", " ">>, <<"+", "1">>, <<"-", "1">> }

ConfirmLines == { <<"y">>, <<"n">>, <<"Y">>, E, <<" ", "y", " ">> }

QueryLines ==
    { E, <<"a">>, <<"B">>, <<" ", "a", "B">>, <<"(">>, <<"Z">>, <<"@", "y">>, <<"n">> }

Orders == {"", "asc", "desc", "up"}

Ada == <<"A", "d", "a">>

(* Files by name; a name outside the domain cannot be opened.              *)
FileSystem ==
    ( <<"a">> :> [header_ok |-> TRUE, header |-> <<"first_name", "phone">>,
                  records |-> << <<Ada, TenDigits>> >>] )
    @@
    ( <<"b">> :> [header_ok |-> TRUE, header |-> <<"last_name", "first_name", "nick">>,
                  records |-> << << <<"A", "b">> >>,
                                 << <<"A", "b">>, E, <<"x">> >> >>] )
    @@
    ( <<"x">> :> [header_ok |-> FALSE, header |-> <<>>, records |-> <<>>] )

FileNameLines == { <<"a">>, <<" ", "b">>, <<"x">>, <<"n">>, E }

(* Contacts a CSV import would add, for the bound on the Vec.              *)
ImportSize(file_name_line) ==
    LET n == get_input(file_name_line) IN
    IF n \in DOMAIN FileSystem /\ FileSystem[n].header_ok
    THEN Len(read_records([contacts |-> <<>>, msgs |-> <<>>],
                          FileSystem[n].header, FileSystem[n].records).contacts)
    ELSE 0

---------------------------------------------------------------------------
(* The state machine                                                       *)

Op(name, order) == [name |-> name, order |-> order, dbres |-> "none"]

(* An operation that went to the database, with what the database did.     *)
OpDb(name, order, dbres) == [name |-> name, order |-> order, dbres |-> dbres]

(* What a listing can be compared with: the operation that ran just before *)
(* it, when that one created a contact or listed rows.  It is recorded at  *)
(* the prompt and kept while a listing runs.                               *)
Nothing == [name |-> "none", order |-> "", form |-> <<>>, shown |-> <<>>,
            removed |-> <<>>]

(* The entries that a step took out of the Vec, when it took out one.      *)
Removed(before, after) ==
    IF Len(after) + 1 = Len(before)
    THEN LET I == { i \in 1..Len(before) :
                      after = [ j \in 1..Len(after) |->
                                  IF j < i THEN before[j] ELSE before[j + 1] ] }
         IN  IF I = {} THEN <<>> ELSE <<before[CHOOSE i \in I : TRUE]>>
    ELSE <<>>

(* The fields of PhoneBook and Contact that the operations of              *)
(* operations.rs never touch.                                              *)
Untouched == UNCHANGED <<msg, uuids, next_uuid, stdin_eof>>

ApplyOp(o, lines, st) ==
    /\ contacts' = st.contacts
    /\ db' = st.db
    /\ alive' = st.alive
    /\ input' = lines
    /\ reads' = st.reads
    /\ output' = st.output
    /\ op' = o
    /\ prev' = IF o.name = "list" THEN prev
               ELSE IF o.name = "delete" /\ Removed(contacts, st.contacts) # <<>>
               THEN [Nothing EXCEPT !.name = "delete", !.shown = st.contacts,
                                    !.removed = Removed(contacts, st.contacts)]
               ELSE Nothing
    /\ Untouched

Apply(name, order, lines, st) == ApplyOp(Op(name, order), lines, st)

(* A fresh database and PhoneBook::default() in PhoneBook::start.          *)
Init ==
    /\ contacts = <<>>
    /\ db = <<>>
    /\ alive = TRUE
    /\ op = Op("start", "")
    /\ input = <<>>
    /\ reads = 0
    /\ output = NoOut
    /\ prev = Nothing
    /\ msg = <<>>
    /\ uuids = <<>>
    /\ next_uuid = 0
    /\ stdin_eof = FALSE

(* The program is run again, after it ended or from its prompt: a new      *)
(* PhoneBook over the same database.                                       *)
Start ==
    /\ op.name = "prompt" \/ ~alive
    /\ Apply("start", "", <<>>, St(<<>>, db, TRUE, 0, NoOut))

Created == op.name = "create" /\ alive /\ reads = 5

Listed == op.name = "list" /\ alive /\ op.order \in {"", "asc", "desc"}
          /\ output.msgs \in {<<>>, <<"No contacts found.">>}

(* The head of the command loop: the previous operation has returned, the  *)
(* menu is shown and the next operation is awaited.                        *)
Prompt ==
    /\ alive
    /\ op.name # "prompt"
    /\ contacts' = contacts
    /\ db' = db
    /\ alive' = alive
    /\ input' = <<>>
    /\ reads' = 0
    /\ output' = NoOut
    /\ op' = Op("prompt", "")
    /\ prev' = IF Created THEN [Nothing EXCEPT !.name = "create", !.form = input]
               ELSE IF Listed
               THEN [Nothing EXCEPT !.name = "list", !.order = op.order,
                                    !.shown = output.shown]
               ELSE IF op.name = "delete" THEN prev
               ELSE Nothing
    /\ Untouched

AtPrompt == alive /\ op.name = "prompt"

Create ==
    /\ AtPrompt
    /\ \E form \in Forms, dbres \in DbOutcomes :
        LET st == create_contact(contacts, db, form, dbres) IN
        /\ Len(st.db) <= MaxContacts
        /\ ApplyOp(OpDb("create", "", dbres), form, st)

List ==
    /\ AtPrompt
    /\ \E order \in Orders, dbres \in DbOutcomes :
        ApplyOp(OpDb("list", order, dbres), <<>>,
                list_contacts_in_order(contacts, db, order, dbres))

Delete ==
    /\ AtPrompt
    /\ \E index_line \in IndexLines, confirm_line \in ConfirmLines :
        Apply("delete", "", <<index_line, confirm_line>>,
              delete_contact(contacts, db, index_line, confirm_line))

Update ==
    /\ AtPrompt
    /\ \E index_line \in IndexLines, form \in Forms :
        Apply("update", "", <<index_line>> \o form,
              update_contact(contacts, db, index_line, form))

Search ==
    /\ AtPrompt
    /\ \E query_line \in QueryLines :
        Apply("search", "", <<query_line>>, search_contact(contacts, db, query_line))

LoadCsv ==
    /\ AtPrompt
    /\ \E file_name_line \in FileNameLines :
        /\ Len(contacts) + ImportSize(file_name_line) <= MaxContacts
        /\ Apply("csv", "", <<file_name_line>>,
                 load_contacts_from_csv(contacts, db, file_name_line, FileSystem))

Next ==
    \/ Start
    \/ Prompt
    \/ Create
    \/ List
    \/ Delete
    \/ Update
    \/ Search
    \/ LoadCsv

Spec == Init /\ [][Next]_vars

---------------------------------------------------------------------------
(* Vocabulary of the properties, stated without the operators above        *)

(* The lines by which a user enters the integer i at an index prompt.      *)
IndexLinesFor(i) ==
    LET d == <<"0", "1", "2", "3", "4", "5", "6", "7", "8", "9">>[i + 1] IN
    { <<d>>, <<" ", d, " ">>, <<"+", d>> }

(* The lines that are "y" once surrounding whitespace is dropped.          *)
YesLines == { <<"y">>, <<" ", "y", " ">> }

(* The sequence s with its i-th entry (1-based) taken out.                 *)
Without(s, i) == [k \in 1..(Len(s) - 1) |-> IF k < i THEN s[k] ELSE s[k + 1]]

ValidForms == {FormA, FormB, FormA2}

(* The contact a valid form describes: each value as typed, surrounding    *)
(* whitespace dropped, the phone in its normal form.                       *)
Entered(form) ==
    CASE form = FormA ->
            [first_name |-> <<"a">>, last_name |-> <<>>, email |-> <<>>,
             address |-> <<>>,
             phone |-> <<"(", "5", "5", "5", ")", " ", "1", "2", "3", "-",
                         "4", "5", "6", "7">>]
      [] form = FormB ->
            [first_name |-> <<"B">>, last_name |-> <<"A", "b">>, email |-> <<>>,
             address |-> <<>>, phone |-> <<"1", "2">>]
      [] form = FormA2 ->
            [first_name |-> <<"a">>, last_name |-> <<>>, email |-> <<"x", "@", "Y">>,
             address |-> <<"Z", " ", "1">>, phone |-> <<"1", "-", "2">>]

---------------------------------------------------------------------------
(* C1: Delete with a valid 1-based index i, confirmed with "y", removes    *)
(* exactly the i-th entry of the collection: one entry fewer, the others   *)
(* unchanged and in the same order.                                        *)
C1_DeleteRemovesExactlyThatEntry ==
    [][ \A i \in 1..Len(contacts) :
          (op'.name = "delete" /\ input'[1] \in IndexLinesFor(i)
                               /\ input'[2] \in YesLines)
          => /\ Len(contacts') = Len(contacts) - 1
             /\ contacts' = Without(contacts, i) ]_vars

C1_Witness ==
    /\ op.name = "delete"
    /\ input = << <<"2">>, <<"y">> >>
    /\ output.msgs = <<"Contact at index {} deleted successfully.">>
    /\ Len(contacts) = 1
    /\ output.card # <<contacts[1]>>

(* C2: Delete changes nothing unless the index is valid and the            *)
(* confirmation is "y": index 0, index length+1, a line that is no         *)
(* integer, and a valid index followed by "n", "Y" or the empty line leave *)
(* the collection (and the table) as they were.                            *)
C2_DeleteOtherwiseUnchanged ==
    [][ ( /\ op'.name = "delete"
          /\ ~ \E i \in 1..Len(contacts) :
                  input'[1] \in IndexLinesFor(i) /\ input'[2] \in YesLines )
        => contacts' = contacts /\ db' = db ]_vars

C2_Witness ==
    /\ op.name = "delete"
    /\ input = << <<"1">>, <<"Y">> >>
    /\ Len(contacts) = 2
    /\ output.msgs = <<"Contact deletion cancelled.">>

(* C3: Update on a valid index i with a non-empty first name and phone     *)
(* replaces all five fields of entry i by the entered values (phone        *)
(* normalized), keeps the length and leaves the other entries alone.       *)
C3_UpdateReplacesAllFields ==
    [][ \A i \in 1..Len(contacts), form \in ValidForms :
          (op'.name = "update" /\ input'[1] \in IndexLinesFor(i)
                               /\ SubSeq(input', 2, 6) = form)
          => /\ Len(contacts') = Len(contacts)
             /\ contacts'[i] = Entered(form)
             /\ \A k \in 1..Len(contacts) : k # i => contacts'[k] = contacts[k] ]_vars

C3_Witness ==
    /\ op.name = "update"
    /\ input = << <<"2">> >> \o FormA2
    /\ Len(contacts) = 2
    /\ output.card = <<Entered(FormB)>>
    /\ contacts[2] = Entered(FormA2)
    /\ contacts[1] = Entered(FormA)

(* C4: Update with an index out of range (0, or above the length) or with  *)
(* a line that is no integer reports "Invalid contact index!", does not    *)
(* crash, asks for no further field and leaves the collection unchanged.   *)
C4_UpdateInvalidIndex ==
    [][ ( /\ op'.name = "update"
          /\ ~ \E i \in 1..Len(contacts) : input'[1] \in IndexLinesFor(i) )
        => /\ output'.msgs = <<"Invalid contact index!">>
           /\ alive'
           /\ reads' = 1
           /\ contacts' = contacts
           /\ db' = db ]_vars

C4_Witness ==
    /\ op.name = "update"
    /\ Len(contacts) >= 1
    /\ input[1] = <<DigitChar(Len(contacts) + 1)>>
    /\ output.msgs = <<"Invalid contact index!">>

(* C5: in Create and in Update an empty first name or phone (after         *)
(* trimming) cancels the operation with a message: the collection and the  *)
(* table are as before and the prompts after the empty field are not       *)
(* asked.                                                                  *)
C5_EmptyRequiredFieldAborts ==
    [][ /\ (op'.name = "create" /\ input' \in {FormNoFirst, FormBlankFirst})
           => /\ output'.msgs = <<"First name is required. Contact creation cancelled.">>
              /\ reads' = 1
              /\ contacts' = contacts /\ db' = db /\ alive'
        /\ (op'.name = "create" /\ input' \in {FormNoPhone, FormBlankPhone})
           => /\ output'.msgs = <<"Phone number is required. Contact creation cancelled.">>
              /\ reads' = 3
              /\ contacts' = contacts /\ db' = db /\ alive'
        /\ \A i \in 1..Len(contacts) :
             /\ ( /\ op'.name = "update" /\ input'[1] \in IndexLinesFor(i)
                  /\ SubSeq(input', 2, 6) \in {FormNoFirst, FormBlankFirst} )
                => /\ output'.msgs[Len(output'.msgs)]
                        = "First name is required. Contact update cancelled."
                   /\ reads' = 2
                   /\ contacts' = contacts /\ db' = db /\ alive'
             /\ ( /\ op'.name = "update" /\ input'[1] \in IndexLinesFor(i)
                  /\ SubSeq(input', 2, 6) \in {FormNoPhone, FormBlankPhone} )
                => /\ output'.msgs[Len(output'.msgs)]
                        = "Phone number is required. Contact update cancelled."
                   /\ reads' = 4
                   /\ contacts' = contacts /\ db' = db /\ alive' ]_vars

C5_Witness ==
    /\ op.name = "update"
    /\ input = << <<"1">> >> \o FormBlankPhone
    /\ reads = 4
    /\ Len(contacts) >= 1
    /\ db # <<>>

---------------------------------------------------------------------------
(* Vocabulary of the listing and search properties                         *)

Last(s) == s[Len(s)]

Reverse(s) == [k \in 1..Len(s) |-> s[Len(s) + 1 - k]]

FirstNames(s) == [k \in 1..Len(s) |-> s[k].first_name]

(* The values of a valid form as typed, surrounding whitespace dropped and *)
(* nothing else changed.                                                   *)
Typed(form) ==
    IF form = FormA THEN [Entered(FormA) EXCEPT !.phone = TenDigits]
    ELSE Entered(form)

(* A listing that reached print_contacts: no error was reported.           *)
ListShown(o, out, running) ==
    /\ o.name = "list"
    /\ running
    /\ out.msgs \in {<<>>, <<"No contacts found.">>}

(* The place of a first name in ordinal order: "B" (U+0042) is before "a"  *)
(* (U+0061).                                                               *)
OrdinalRank(first_name) ==
    CASE first_name = <<"B">> -> 1
      [] first_name = <<"a">> -> 2

WithFirstName(s, n) ==
    LET Is(c) == c.first_name = n IN SelectSeq(s, Is)

(* Lower case of the letters of the model's alphabet.                      *)
LowerPairs == { <<"A", "a">>, <<"B", "b">>, <<"Y", "y">>, <<"Z", "z">> }

Lowered(s) ==
    [k \in 1..Len(s) |->
        IF \E pr \in LowerPairs : pr[1] = s[k]
        THEN (CHOOSE pr \in LowerPairs : pr[1] = s[k])[2]
        ELSE s[k]]

(* The query a line of QueryLines stands for, whitespace dropped.          *)
QueryText(line) == IF line = <<" ", "a", "B">> THEN <<"a", "B">> ELSE line

IsPartOf(text, field) ==
    LET t == Lowered(text)
        f == Lowered(field)
    IN  \E before \in 0..Len(f) :
            /\ before + Len(t) <= Len(f)
            /\ \A k \in 1..Len(t) : f[before + k] = t[k]

FuzzyMatch(c, text) ==
    \/ IsPartOf(text, c.first_name)
    \/ IsPartOf(text, c.last_name)
    \/ IsPartOf(text, c.email)
    \/ IsPartOf(text, c.address)
    \/ IsPartOf(text, c.phone)

Matching(s, text) ==
    LET Is(c) == FuzzyMatch(c, text) IN SelectSeq(s, Is)

---------------------------------------------------------------------------
(* C6 as stated: a Create followed at once by List (original order) shows  *)
(* the created contact last, every value exactly as entered.               *)
C6_CreatedShownLastExactlyAsEntered ==
    (prev.name = "create" /\ ListShown(op, output, alive) /\ op.order = "")
    => /\ output.shown # <<>>
       /\ Last(output.shown) = Typed(prev.form)

(* C6 amended: the created contact is shown last with the values entered,  *)
(* the phone number in its normalized form.                                *)
C6_CreatedShownLastNormalized ==
    (prev.name = "create" /\ ListShown(op, output, alive) /\ op.order = "")
    => /\ output.shown # <<>>
       /\ Last(output.shown) = Entered(prev.form)

C6_Witness ==
    /\ prev.name = "create"
    /\ prev.form = FormA
    /\ ListShown(op, output, alive)
    /\ op.order = ""
    /\ Len(output.shown) = 2
    /\ output.shown[1] = Entered(FormB)
    /\ output.shown[2] = Entered(FormA)
    /\ output.shown[2] # Typed(FormA)

(* C7 as stated: List ascending and List descending leave the stored       *)
(* sequence of the phone book, here in creation order, as it was.          *)
C7_SortedListKeepsStoredOrder ==
    [][ ( /\ ListShown(op', output', alive')
          /\ op'.order \in {"asc", "desc"}
          /\ contacts = db )
        => contacts' = contacts ]_vars

(* C8 as stated: for the same contacts the ascending listing is the exact  *)
(* reverse of the descending one.                                          *)
C8_AscIsExactReverseOfDesc ==
    ( /\ prev.name = "list" /\ prev.order \in {"asc", "desc"}
      /\ ListShown(op, output, alive)
      /\ op.order \in {"asc", "desc"} /\ op.order # prev.order )
    => output.shown = Reverse(prev.shown)

(* C8 amended: the first names of the ascending listing are the exact      *)
(* reverse of the first names of the descending one, and the two listings  *)
(* are exact reverses when no two contacts share a first name.             *)
C8_AscReversesDescUpToTies ==
    ( /\ prev.name = "list" /\ prev.order \in {"asc", "desc"}
      /\ ListShown(op, output, alive)
      /\ op.order \in {"asc", "desc"} /\ op.order # prev.order )
    => /\ FirstNames(output.shown) = Reverse(FirstNames(prev.shown))
       /\ (\A j, k \in 1..Len(db) : j # k => db[j].first_name # db[k].first_name)
          => output.shown = Reverse(prev.shown)

C8_Witness ==
    /\ prev.name = "list"
    /\ prev.order = "asc"
    /\ prev.shown = <<Entered(FormB), Entered(FormA2)>>
    /\ ListShown(op, output, alive)
    /\ op.order = "desc"
    /\ output.shown = <<Entered(FormA2), Entered(FormB)>>

(* C9: List ascending and List descending show every stored contact,       *)
(* ordered by first name in ordinal order (ascending or descending), and   *)
(* contacts with equal first names in creation order in both.              *)
C9_SortedByFirstNameStable ==
    (ListShown(op, output, alive) /\ op.order \in {"asc", "desc"})
    => LET shown == output.shown IN
       /\ Len(shown) = Len(db)
       /\ \A j, k \in 1..Len(shown) :
            j < k =>
              IF op.order = "asc"
              THEN OrdinalRank(shown[j].first_name) <= OrdinalRank(shown[k].first_name)
              ELSE OrdinalRank(shown[j].first_name) >= OrdinalRank(shown[k].first_name)
       /\ \A n \in {<<"a">>, <<"B">>} :
            WithFirstName(shown, n) = WithFirstName(db, n)

C9_Witness ==
    /\ ListShown(op, output, alive)
    /\ op.order = "desc"
    /\ db = <<Entered(FormA), Entered(FormA2)>>
    /\ output.shown = <<Entered(FormA), Entered(FormA2)>>

(* C10: Fuzzy Query shows exactly the contacts of the collection in which  *)
(* the lower-cased query is part of the lower-cased first name, last name, *)
(* email, address or phone, in the order of the collection; with no match  *)
(* it reports that and goes on running.                                    *)
C10_FuzzyQueryExactMatches ==
    [][ op'.name = "search"
        => LET expected == Matching(contacts, QueryText(input'[1])) IN
           /\ alive'
           /\ contacts' = contacts
           /\ IF expected = <<>>
              THEN /\ output'.shown = <<>>
                   /\ output'.msgs = <<"No contacts found matching the search query.">>
              ELSE /\ output'.shown = expected
                   /\ output'.msgs = <<>> ]_vars

C10_Witness ==
    /\ op.name = "search"
    /\ input = << <<"Z">> >>
    /\ contacts = <<Entered(FormB), Entered(FormA2)>>
    /\ output.shown = <<Entered(FormA2)>>

---------------------------------------------------------------------------
(* Contact::new over phone numbers                                         *)
(*                                                                         *)
(* standardize_phone_number is private to Contact; Contact::new is the way *)
(* in.  This specification draws a phone number, hands it to Contact::new  *)
(* with the other fields empty and keeps the contact built.                *)

(* Most digits in a phone number that the specification draws.             *)
MaxPhoneDigits == 11

(* n digits that start at the digit k and count upwards.                   *)
DigitRun(k, n) == [ i \in 1..n |-> DigitChar((k + i - 1) % 10) ]

RECURSIVE Grouped(_, _)
Grouped(digs, sep) ==
    IF Len(digs) <= 3 THEN digs
    ELSE SubSeq(digs, 1, 3) \o sep \o Grouped(SubSeq(digs, 4, Len(digs)), sep)

PhoneSeparators == { <<>>, <<"-">>, <<" ">>, <<".">> }
PhonePrefixes == { <<>>, <<"+">>, <<"(">> }
PhoneSuffixes == { <<>>, <<"x">> }

(* Phone numbers as users type them: groups of three digits with a         *)
(* separator, after a prefix and before a suffix.                          *)
PhoneInputs ==
    { pre \o Grouped(DigitRun(k, n), sep) \o suf :
        k \in {0, 5, 8}, n \in 0..MaxPhoneDigits, sep \in PhoneSeparators,
        pre \in PhonePrefixes, suf \in PhoneSuffixes }

InitPhone ==
    /\ contacts = <<>>
    /\ db = <<>>
    /\ alive = TRUE
    /\ op = Op("phone", "")
    /\ input \in { <<raw>> : raw \in PhoneInputs }
    /\ reads = 0
    /\ output = NoOut
    /\ prev = Nothing
    /\ msg = <<>>
    /\ uuids = <<>>
    /\ next_uuid = 0
    /\ stdin_eof = FALSE

NewContact ==
    /\ op.name = "phone"
    /\ contacts' = <<Contact_new(E, E, E, E, input[1])>>
    /\ op' = Op("contact_new", "")
    /\ UNCHANGED <<db, alive, input, reads, output, prev, msg, uuids, next_uuid,
                   stdin_eof>>

NextPhone == NewContact

SpecPhone == InitPhone /\ [][NextPhone]_vars

(* The decimal digits of a string, in their order.                         *)
DecimalDigitsOf(raw) ==
    SelectSeq(raw, LAMBDA c : c \in {"0", "1", "2", "3", "4", "5", "6", "7", "8", "9"})

(* "(d0d1d2) d3d4d5-d6d7d8d9" of ten digits d.                             *)
Canonical(d) ==
    <<"(", d[1], d[2], d[3], ")", " ", d[4], d[5], d[6], "-", d[7], d[8], d[9], d[10]>>

(* C11: the phone number of a contact built from the raw string r is       *)
(* "(d0d1d2) d3d4d5-d6d7d8d9" when r holds exactly ten decimal digits d,   *)
(* and r itself, punctuation included, in every other case.                *)
C11_NormalizePhone ==
    op.name = "contact_new"
    => LET raw == input[1]
           d   == DecimalDigitsOf(raw)
       IN  contacts[1].phone = IF Len(d) = 10 THEN Canonical(d) ELSE raw

C11_Witness ==
    /\ op.name = "contact_new"
    /\ input = << <<"+", "8", "9", "0", ".", "1", "2", "3", ".", "4", "5", "6", ".", "7", "x">> >>
    /\ contacts[1].phone = <<"(", "8", "9", "0", ")", " ", "1", "2", "3", "-", "4", "5", "6", "7">>

---------------------------------------------------------------------------
(* The command loop of PhoneBook::start                                    *)
(*                                                                         *)
(* phone_book.rs holds the loop that reads a command and matches on it,    *)
(* with the create_contact and add_contact that keep to the Vec and report *)
(* through the msg field.  Texts the program formats with a value are      *)
(* pairs of the format and the value.                                      *)

OPERATIONS == <<"C", "Q", "F", "U", "D", "E", "L", "A", "Z", "?">>

(* The patterns of the match in PhoneBook::start that are not `_`.         *)
Arms == {"C", "Q", "F", "U", "D", "E", "L", "A", "Z"}

(* A match on the first character of the operation.                        *)
start_arm_prefix(operation) ==
    IF operation # <<>> /\ Head(operation) \in Arms THEN Head(operation) ELSE "_"

(* The arm that `match operation.as_str()` takes.                          *)
start_arm(operation) ==
    IF Len(operation) = 1 /\ operation[1] \in Arms THEN operation[1] ELSE "_"

(* What an iteration of the loop leaves: the Vec, whether the loop still   *)
(* runs, the lines read, what was printed, msg and the arm taken.          *)
Lp(c, a, n, out, m, arm) ==
    [contacts |-> c, alive |-> a, reads |-> n, output |-> out, msg |-> m, arm |-> arm]

(* PhoneBook::add_contact of phone_book.rs                                 *)
PhoneBook_add_contact(self, contact) == Append(self, contact)

(* PhoneBook::create_contact of phone_book.rs                              *)
PhoneBook_create_contact(self, form) ==
    LET first_name   == get_input(form[1])
        last_name    == get_input(form[2])
        phone_number == get_input(form[3])
        email        == get_input(form[4])
        address      == get_input(form[5])
        new_contact  == Contact_new(first_name, last_name, email, address, phone_number)
    IN  IF is_empty(first_name)
        THEN [contacts |-> self, reads |-> 1,
              msg |-> <<"First name is required. Contact creation cancelled.">>]
        ELSE IF is_empty(phone_number)
        THEN [contacts |-> self, reads |-> 3,
              msg |-> <<"Phone number is required. Contact creation cancelled.">>]
        ELSE [contacts |-> PhoneBook_add_contact(self, new_contact), reads |-> 5,
              msg |-> <<"Contact created successfully!">>]

(* PhoneBook::show_operations of phone_book.rs: the options and the footer. *)
PhoneBook_show_operations(m) ==
    [msgs |-> <<>>, card |-> <<>>, shown |-> <<>>, options |-> OPERATIONS,
     footer |-> IF is_empty(m) THEN <<"None">> ELSE m]

(* The body of the loop after show_operations; lines are the command line  *)
(* and the lines the user would type after it.                             *)
start_iteration(self, lines) ==
    LET operation == to_uppercase(get_input(lines[1]))
        last      == <<"Last command: {}", operation>>
        arm       == start_arm(operation)
    IN  CASE arm = "C" ->
                LET r == PhoneBook_create_contact(self, Tail(lines)) IN
                Lp(r.contacts, TRUE, 1 + r.reads,
                   Out(<<"Creating a new contact...">>, <<>>, <<>>), r.msg, arm)
          [] arm = "E" ->
                Lp(self, FALSE, 1, Out(<<"Exiting the phone book...">>, <<>>, <<>>),
                   last, arm)
          [] arm = "_" ->
                Lp(self, TRUE, 1, NoOut, <<"Invalid operation: {}", operation>>, arm)
          [] OTHER ->
                Lp(self, TRUE, 1, NoOut, last, arm)

(* Lines typed at "Enter an operation: ".                                  *)
CommandLines ==
    { <<c>> : c \in {"C", "Q", "F", "U", "D", "E", "L", "A", "Z", "?",
                       "c", "q", "f", "u", "d", "e", "l", "a", "z"} }
    \cup { <<" ", "c", " ">>, <<" ", "E">>, <<"?", " ">> }
    \cup { E, <<" ">>, <<"x">>, <<"B">>, <<"1">>, <<"c", "c">>, <<"C", "x">>,
           <<"e", "y">>, <<"-", "l">> }

ApplyLoopEof(lines, r, eof) ==
    /\ contacts' = r.contacts
    /\ alive' = r.alive
    /\ input' = lines
    /\ reads' = r.reads
    /\ output' = r.output
    /\ msg' = r.msg
    /\ op' = Op(r.arm, "")
    /\ stdin_eof' = eof
    /\ UNCHANGED <<db, prev, uuids, next_uuid>>

(* An iteration that leaves stdin as it found it.                          *)
ApplyLoop(lines, r) == ApplyLoopEof(lines, r, stdin_eof)

(* let mut phone_book = Self::default();                                   *)
InitLoop ==
    /\ contacts = <<>>
    /\ db = <<>>
    /\ alive = TRUE
    /\ op = Op("start", "")
    /\ input = <<>>
    /\ reads = 0
    /\ output = NoOut
    /\ prev = Nothing
    /\ msg = <<>>
    /\ uuids = <<>>
    /\ next_uuid = 0
    /\ stdin_eof = FALSE

(* The head of an iteration: phone_book.show_operations().                 *)
ShowOperations ==
    /\ alive
    /\ op.name # "show"
    /\ output' = PhoneBook_show_operations(msg)
    /\ input' = <<>>
    /\ reads' = 0
    /\ op' = Op("show", "")
    /\ UNCHANGED <<contacts, db, alive, prev, msg, uuids, next_uuid, stdin_eof>>

(* The loop waits in get_input and the user types a line.                  *)
AtCommand == alive /\ op.name = "show" /\ ~stdin_eof

ArmOfLine(line) == start_arm(to_uppercase(get_input(line)))

CommandCreate ==
    /\ AtCommand
    /\ \E line \in CommandLines, form \in Forms :
        LET r == start_iteration(contacts, <<line>> \o form) IN
        /\ ArmOfLine(line) = "C"
        /\ Len(r.contacts) <= MaxContacts
        /\ ApplyLoop(<<line>> \o form, r)

CommandEmptyArm ==
    /\ AtCommand
    /\ \E line \in CommandLines, answer \in ConfirmLines \cup QueryLines :
        /\ ArmOfLine(line) \in Arms \ {"C", "E"}
        /\ ApplyLoop(<<line, answer>>, start_iteration(contacts, <<line, answer>>))

CommandExit ==
    /\ AtCommand
    /\ \E line \in CommandLines, answer \in ConfirmLines :
        /\ ArmOfLine(line) = "E"
        /\ ApplyLoop(<<line, answer>>, start_iteration(contacts, <<line, answer>>))

CommandOther ==
    /\ AtCommand
    /\ \E line \in CommandLines :
        /\ ArmOfLine(line) = "_"
        /\ ApplyLoop(<<line>>, start_iteration(contacts, <<line>>))

NextLoop ==
    \/ ShowOperations
    \/ CommandCreate
    \/ CommandEmptyArm
    \/ CommandExit
    \/ CommandOther

SpecLoop == InitLoop /\ [][NextLoop]_vars

(* The lines that name one of the ten commands, in either case, with or    *)
(* without surrounding whitespace.                                         *)
RecognizedLines ==
    { <<"C">>, <<"Q">>, <<"F">>, <<"U">>, <<"D">>, <<"E">>, <<"L">>, <<"A">>, <<"Z">>,
      <<"?">>, <<"c">>, <<"q">>, <<"f">>, <<"u">>, <<"d">>, <<"e">>, <<"l">>, <<"a">>,
      <<"z">>, <<" ", "c", " ">>, <<" ", "E">>, <<"?", " ">> }

ExitLines == { <<"E">>, <<"e">>, <<" ", "E">> }

(* The other lines, each with the text the program shows for it.           *)
ShownAs(line) ==
    CASE line = <<>> -> <<>>
      [] line = <<" ">> -> <<>>
      [] line = <<"x">> -> <<"X">>
      [] line = <<"B">> -> <<"B">>
      [] line = <<"1">> -> <<"1">>
      [] line = <<"c", "c">> -> <<"C", "C">>
      [] line = <<"C", "x">> -> <<"C", "X">>
      [] line = <<"e", "y">> -> <<"E", "Y">>
      [] line = <<"-", "l">> -> <<"-", "L">>

(* A step of the loop that reads a command and acts on it.                 *)
CommandStep == op.name = "show" /\ op'.name # "show"

(* C12: after the Exit command the loop ends when the answer to the        *)
(* confirmation is "y", and with any other answer it is still running      *)
(* with the collection as it was.                                          *)
C12_ExitNeedsConfirmation ==
    [][ (CommandStep /\ input'[1] \in ExitLines)
        => /\ alive' <=> input'[2] \notin YesLines
           /\ contacts' = contacts ]_vars

(* C13: a line that names one of C, Q, F, U, D, E, L, A, Z, ? in either    *)
(* case is not answered with "invalid operation" and is not passed over:   *)
(* its operation prompts for more or prints something.                     *)
C13_TenCommandsInvokeTheirOperation ==
    [][ (CommandStep /\ input'[1] \in RecognizedLines)
        => /\ msg'[1] # "Invalid operation: {}"
           /\ reads' > 1 \/ output' # NoOut ]_vars

(* C14: a line that names none of the ten commands leaves the message      *)
(* "Invalid operation" with the text typed, the collection as it was and   *)
(* the loop running; one line was read, and the menu shown next carries    *)
(* the message.                                                            *)
C14_UnrecognizedLineIsInvalidOperation ==
    [][ /\ (CommandStep /\ input'[1] \notin RecognizedLines)
           => /\ msg' = <<"Invalid operation: {}", ShownAs(input'[1])>>
              /\ contacts' = contacts
              /\ alive'
              /\ reads' = 1
        /\ (op.name = "_" /\ op'.name = "show")
           => /\ output'.footer = msg
              /\ contacts' = contacts
              /\ alive' ]_vars

C14_Witness ==
    /\ op.name = "show"
    /\ output.footer = <<"Invalid operation: {}", <<"C", "X">> >>
    /\ Len(contacts) = 2
    /\ alive

---------------------------------------------------------------------------
(* Contacts with a uuid                                                    *)
(*                                                                         *)
(* The Contact of contact.rs carries a uuid that Default::default() draws  *)
(* with Uuid::new_v4(), and Contact::new fills it by `..Default::default()`.*)
(* uuids[i] is the uuid of contacts[i].  A version-4 uuid is 122 random    *)
(* bits; the model takes each draw to be a value not drawn before.         *)

(* Most uuids drawn in a run that the model explores.                      *)
MaxUuids == 4

(* Uuid::new_v4(), as the drawn-th draw.                                   *)
Uuid_new_v4(drawn) == drawn + 1

(* Of an operation this specification keeps the Vec, the uuids and the     *)
(* number of lines read; what was typed and printed is not recorded.       *)
ApplyIds(name, c, ids, drawn, n) ==
    /\ contacts' = c
    /\ uuids' = ids
    /\ next_uuid' = drawn
    /\ reads' = n
    /\ op' = Op(name, "")
    /\ UNCHANGED <<db, alive, prev, input, output, msg, stdin_eof>>

(* create_contact of phone_book.rs: Contact::new, then push.               *)
IdsCreate ==
    \E form \in Forms :
        LET r       == PhoneBook_create_contact(contacts, form)
            created == r.reads = 5
        IN  /\ Len(r.contacts) <= MaxContacts
            /\ created => next_uuid < MaxUuids
            /\ ApplyIds("create", r.contacts,
                        IF created THEN Append(uuids, Uuid_new_v4(next_uuid)) ELSE uuids,
                        IF created THEN next_uuid + 1 ELSE next_uuid,
                        r.reads)

(* update_contact: once all six lines are read it builds Contact::new and  *)
(* assigns it to self.contacts[index - 1], uuid included.                  *)
IdsUpdate ==
    \E index_line \in IndexLines, form \in Forms :
        LET st       == update_contact(contacts, db, index_line, form)
            index    == parse_usize(get_input(index_line)).value
            replaced == st.alive /\ st.reads = 6
        IN  /\ replaced => next_uuid < MaxUuids
            /\ st.alive
            /\ ApplyIds("update", st.contacts,
                        IF replaced
                        THEN index_assign(uuids, index - 1, Uuid_new_v4(next_uuid))
                        ELSE uuids,
                        IF replaced THEN next_uuid + 1 ELSE next_uuid,
                        st.reads)

(* delete_contact: Vec::remove takes the contact out, uuid included.       *)
IdsDelete ==
    \E index_line \in IndexLines, confirm_line \in ConfirmLines :
        LET st      == delete_contact(contacts, db, index_line, confirm_line)
            index   == parse_usize(get_input(index_line)).value
            removed == Len(st.contacts) < Len(contacts)
        IN  /\ st.alive
            /\ ApplyIds("delete", st.contacts,
                        IF removed THEN remove(uuids, index - 1) ELSE uuids,
                        next_uuid, st.reads)

NextIds ==
    \/ IdsCreate
    \/ IdsUpdate
    \/ IdsDelete

SpecIds == InitLoop /\ [][NextIds]_vars

---------------------------------------------------------------------------
(* Import, identifiers, persistence failures and the two stores            *)

(* C15: importing the file with header first_name,phone and the one row    *)
(* Ada,5551234567 adds exactly one contact to the collection: first name   *)
(* Ada, phone (555) 123-4567, and last name, email and address empty.      *)
C15_ImportMapsColumnsAndNormalizesPhone ==
    [][ (op'.name = "csv" /\ input' = << <<"a">> >>)
        => contacts' = Append(contacts,
                              [first_name |-> <<"A", "d", "a">>, last_name |-> <<>>,
                               email |-> <<>>, address |-> <<>>,
                               phone |-> <<"(", "5", "5", "5", ")", " ", "1", "2", "3",
                                           "-", "4", "5", "6", "7">>]) ]_vars

(* C16: every contact of the collection has a first name and a phone       *)
(* number that are not empty.                                              *)
C16_RequiredFieldsNeverEmpty ==
    \A i \in 1..Len(contacts) :
        contacts[i].first_name # <<>> /\ contacts[i].phone # <<>>

(* C17: the identifiers of the collection are pairwise different, and the  *)
(* entry at every position has the same identifier after an Update as      *)
(* before it.                                                              *)
C17_IdentifierNeverChanges ==
    [][ /\ \A i, j \in 1..Len(uuids') : uuids'[i] = uuids'[j] => i = j
        /\ op'.name = "update"
           => /\ Len(uuids') = Len(uuids)
              /\ \A i \in 1..Len(uuids) : uuids'[i] = uuids[i] ]_vars

(* C18, as stated: after a failed load in List and after a failed insert   *)
(* in Create an error message is shown and the program holds the same      *)
(* in-memory collection as before the call.                                *)
C18_FailureLeavesCollectionInPlace ==
    [][ (\/ op'.name = "list" /\ op'.dbres = "query_failed"
               /\ op'.order \in {"", "asc", "desc"}
         \/ op'.name = "create" /\ op'.dbres = "query_failed"
               /\ input' \in ValidForms)
        => /\ output'.msgs # <<>>
           /\ alive'
           /\ contacts' = contacts ]_vars

(* C18, amended: a failed load in List shows an error message, the         *)
(* collection is as before and the program goes on; a failed insert in     *)
(* Create, and a failed connection in either, ends the process with the    *)
(* error message, and neither the table nor the Vec has changed.           *)
C18_FailedLoadReportedFailedInsertFatal ==
    [][ /\ (op'.name = "list" /\ op'.dbres = "query_failed"
              /\ op'.order \in {"", "asc", "desc"})
           => /\ output'.msgs = <<"Error fetching contacts from the database">>
              /\ output'.shown = <<>>
              /\ alive'
              /\ contacts' = contacts
              /\ db' = db
        /\ (op'.name = "create" /\ op'.dbres = "query_failed"
              /\ input' \in ValidForms)
           => /\ output'.msgs = <<"Error saving new contact">>
              /\ ~alive'
              /\ contacts' = contacts
              /\ db' = db
        /\ (op'.dbres = "connect_failed"
              /\ (op'.name = "list" \/ (op'.name = "create" /\ input' \in ValidForms)))
           => /\ output'.msgs = <<"Error connecting to DATABASE_URL">>
              /\ ~alive'
              /\ contacts' = contacts
              /\ db' = db ]_vars

C18_Witness ==
    /\ op.name = "list"
    /\ op.dbres = "query_failed"
    /\ op.order = "asc"
    /\ alive
    /\ contacts = <<Entered(FormB)>>
    /\ db = <<Entered(FormB), Entered(FormA)>>
    /\ output.msgs = <<"Error fetching contacts from the database">>

(* C19: a listing that follows a confirmed Delete, with nothing created or *)
(* imported in between, does not show the contact that was removed (unless *)
(* an equal contact is still in the collection).                           *)
C19_DeletedContactStaysRemoved ==
    (prev.name = "delete" /\ ListShown(op, output, alive))
    => \A k \in 1..Len(prev.removed) :
          (\A i \in 1..Len(prev.shown) : prev.shown[i] # prev.removed[k])
          => \A i \in 1..Len(output.shown) : output.shown[i] # prev.removed[k]

(* C20: a Create that succeeds appends the contact entered to the          *)
(* in-memory collection: the collection is one longer than before and its  *)
(* last entry, the one that the index equal to the new length addresses,   *)
(* is the new contact.                                                     *)
C20_CreatedContactInCollectionAtOnce ==
    [][ (op'.name = "create" /\ op'.dbres = "ok" /\ input' \in ValidForms)
        => /\ alive'
           /\ Len(contacts') = Len(contacts) + 1
           /\ Last(contacts') = Entered(input') ]_vars

---------------------------------------------------------------------------
(* The command loop at the end of stdin                                    *)
(*                                                                         *)
(* At end of file read_line returns Ok(0) and leaves the buffer empty, so  *)
(* the unwrap in get_input passes and get_input returns "".  Every read    *)
(* after that does the same.                                               *)

(* The five lines the prompts of create_contact read when stdin ends after *)
(* the first k of them.                                                    *)
CutShort(form, k) == [ i \in 1..5 |-> IF i <= k THEN form[i] ELSE E ]

(* The lines read from a stdin that is at end of file.                     *)
EofLines == [ i \in 1..6 |-> E ]

(* stdin ends while the loop waits for a command.                          *)
CloseStdin ==
    /\ AtCommand
    /\ stdin_eof' = TRUE
    /\ UNCHANGED <<contacts, db, alive, op, input, reads, output, prev, msg,
                   uuids, next_uuid>>

(* stdin ends inside create_contact, after the command and k of its lines. *)
CreateCutShort ==
    /\ AtCommand
    /\ \E line \in CommandLines, form \in Forms, k \in 0..4 :
        LET lines == <<line>> \o CutShort(form, k)
            r     == start_iteration(contacts, lines)
        IN  /\ ArmOfLine(line) = "C"
            /\ Len(r.contacts) <= MaxContacts
            /\ ApplyLoopEof(lines, r, TRUE)

(* An iteration of the loop with stdin at end of file.                     *)
CommandAtEof ==
    /\ alive
    /\ op.name = "show"
    /\ stdin_eof
    /\ ApplyLoop(EofLines, start_iteration(contacts, EofLines))

NextEof ==
    \/ ShowOperations
    \/ CommandCreate
    \/ CommandEmptyArm
    \/ CommandExit
    \/ CommandOther
    \/ CloseStdin
    \/ CreateCutShort
    \/ CommandAtEof

(* The process is always scheduled and a read at end of file returns at    *)
(* once, so the steps of the program that wait for nobody are taken; a     *)
(* user may stop typing.                                                   *)
SpecEof ==
    /\ InitLoop
    /\ [][NextEof]_vars
    /\ WF_vars(ShowOperations)
    /\ WF_vars(CommandAtEof)

(* C21: once stdin has reached end of file the command loop eventually     *)
(* terminates.                                                             *)
C21_EofEndsTheLoop == stdin_eof ~> ~alive

====
